---- MODULE Spec2Model ----
(***************************************************************************)
(* Model of src/src/button_handler.py (class ButtonHandler): the caller's  *)
(* start()/stop()/simulate_button_press(), the poll-loop thread (_run),    *)
(* the event handler (_handle_button_event, run on the poll thread) and    *)
(* the dispatch workers (_process_button_async).                           *)
(*                                                                         *)
(* Time is counted in tenths of a second.  Threads advance one shared      *)
(* access at a time; thread-local computation is folded into the step      *)
(* that ends with the shared access.                                       *)
(***************************************************************************)
EXTENDS Integers, Sequences, FiniteSets, TLC

\* ------------------------------------------------------------------ bounds
\* ticks of the clock the model explores after the first reading
Horizon == 4
\* dispatch-worker threads that can exist at the same time
MaxWorkers == 2
\* start() calls that request the lines (line requests and poll-loop
\* threads created)
MaxStarts == 2
\* edge events returned by one read_edge_events() call
MaxBatch == 2

\* -------------------------------------------------------- program constants
BUTTONS == <<5, 6, 16, 24>>
LABELS == <<"A", "B", "C", "D">>
\* DEBOUNCE_TIME = 0.3 s, in tenths of a second
DEBOUNCE_TIME == 3

\* time.time() is seconds since the epoch: far more than DEBOUNCE_TIME
\* after the default timestamp 0 of a button that was never pressed
StartTime == DEBOUNCE_TIME + 1
MaxTime == StartTime + Horizon

\* chip.line_offset_from_id(id): gpiod returns an integer id as the offset
\* it names
LineOffsetFromId(id) == id

\* a line that is none of the four requested ones
UnknownLine == BUTTONS[Len(BUTTONS)] + 1
\* the lines whose events the model delivers: buttons A and B
PressedLines == {LineOffsetFromId(BUTTONS[1]), LineOffsetFromId(BUTTONS[2])}
\* the same, and a line that was not requested
EventLines == PressedLines \cup {UnknownLine}

None == "None"
NoThread == <<>>
PollThreads == 1..MaxStarts
\* the line requests chip.request_lines() can return
Requests == 1..MaxStarts
Workers == 1..MaxWorkers
PollId(t) == <<"poll", t>>
WorkerId(w) == <<"worker", w>>

\* ------------------------------------------------- external collaborators
\* plugin ids known to the configuration store
PluginIds == {"capable", "buttonless", "unconfigured"}
\* the id of the ImageAlbum plugin (plugins/image_album/image_album.py)
ImageAlbumId == "image_album"
\* device_config.get_plugin(plugin_id) finds a configuration
HasConfig(p) == p \in {"capable", "buttonless", ImageAlbumId}
\* hasattr(plugin, 'handle_button')
HasHandleButton(p) == p \in {"capable", ImageAlbumId}
Images == {"img1", "img2"}
\* handle_button results: an image, another value, or nothing
Results == Images \cup {"other", None}
\* a check that takes every value that is not None for an image
IsNotNone(r) == r # None
\* isinstance(result, Image.Image)
IsImage(r) == r \in Images
\* utils.image_utils.compute_image_hash: a fingerprint of the image content
ComputeImageHash(img) == <<"hash", img>>
OldHash == <<"hash", "old">>
\* plugin.config of the resolved plugin: with or without "image_settings"
PluginConfigs == {[id |-> "cfg", image_settings |-> <<"saturation">>], [id |-> "cfg"]}
\* a delivery that passes no image settings
NoImageSettings(cfg) == <<>>
\* plugin.config.get("image_settings", [])
ImageSettings(cfg) ==
    IF "image_settings" \in DOMAIN cfg THEN cfg.image_settings ELSE <<>>
\* ------------------------------------------- ImageAlbum.handle_button
\* a settings value for which `not settings` is true: None or an empty dict
NoSettings == {None, "empty"}
\* self.cached_settings: None, an empty dict, or the settings of the last
\* generate_image call
CachedSettings == {None, "empty", "cached"}
\* the fallback of lines 215-236: a collaborator raises, the plugin
\* instance is not found in the active playlist, or it is found with empty
\* or non-empty settings
Recoveries == {"raises", "not_found", "empty", "playlist"}
\* generate_image(settings, device_config): an image, or it raises
Generations == Images \cup {"raises"}

\* a handle_button that generates an image whatever the button
ImageAlbumGeneratesForAnyButton(button_name, cached, recovery, generated) ==
    LET settings == IF cached \notin NoSettings THEN cached
                    ELSE IF recovery = "not_found" THEN cached
                    ELSE recovery
    IN CASE cached \in NoSettings /\ recovery = "raises" -> None
         [] settings \in NoSettings -> None
         [] OTHER -> IF generated = "raises" THEN None ELSE generated

\* image_album.py lines 197-257: what handle_button returns for a button
\* name, given self.cached_settings, the outcome of the fallback lookup
\* and the outcome of generate_image
ImageAlbumHandleButton(button_name, cached, recovery, generated) ==
    LET settings == IF cached \notin NoSettings THEN cached
                    ELSE IF recovery = "not_found" THEN cached
                    ELSE recovery
    IN CASE cached \in NoSettings /\ recovery = "raises" -> None
         [] settings \in NoSettings -> None
         [] button_name = "A" ->
                IF generated = "raises" THEN None ELSE generated
         [] OTHER -> None

\* device_config.get_refresh_info(): None, or the record of the last refresh
NoRefreshInfo == [present |-> FALSE, plugin_id |-> None, image_hash |-> <<>>]
RefreshInfos ==
    {NoRefreshInfo}
    \cup [present : {TRUE}, plugin_id : PluginIds \cup {None}, image_hash : {OldHash}]

VARIABLES
    running,          \* self.running
    thread,           \* self.thread: 0 (None) or the poll thread last created
    chip,             \* self.chip
    request,          \* self.request: 0 (None) or the line request held
    offsets,          \* self.offsets: <<>> (None) or the four line offsets
    last_press_time,  \* self.last_press_time: label -> time of last accepted press
    processing_lock,  \* self.processing_lock: NoThread or the thread holding it
    is_processing,    \* self.is_processing
    requested,        \* line requests made so far by chip.request_lines()
    released,         \* per line request: number of release() calls made on it
    cpc,              \* caller thread: position inside stop()
    ppc,              \* per poll thread: position in _run / _handle_button_event
    fd,               \* per poll thread: the request whose fd it waits on
    events,           \* per poll thread: edge events read and not yet handled
    wpc,              \* per worker: position in _process_button_async
    wlabel,           \* per worker: the label it was started with
    wlocal,           \* per worker: the locals of _process_button_async
    wcalls,           \* per worker: the calls its body has made so far
    now,              \* the clock read by time.time()
    refresh_info,     \* the configuration store's refresh-info record
    persisted,        \* the refresh-info record last written by write_config
    spawned,          \* workers started so far
    gate_free,        \* presses that passed debounce and found is_processing false
    spawn_failed,     \* presses whose worker thread could not be started
    calls             \* collaborator and log calls made by the last step

vars == <<running, thread, chip, request, offsets, last_press_time,
          processing_lock, is_processing, released, cpc, ppc, fd, events,
          wpc, wlabel, wlocal, wcalls, requested, now, refresh_info, persisted, spawned, gate_free,
          spawn_failed, calls>>

lifecycle == <<running, thread, chip, request, offsets, requested, released>>
gate == <<processing_lock, is_processing>>
pollvars == <<ppc, fd, events>>
workvars == <<wpc, wlabel, wlocal, wcalls>>
counters == <<spawned, gate_free, spawn_failed>>
store == <<refresh_info, persisted>>

\* the locals of a dispatch worker that has not read the store: whether the
\* record it got from get_refresh_info() has since been replaced in the
\* store, and the values of plugin_id, plugin_config and result
NoLocals ==
    [stale |-> FALSE, plugin_id |-> None, plugin_config |-> None, result |-> None]

\* ButtonHandler.__init__
Init ==
    /\ running = FALSE
    /\ thread = 0
    /\ chip = None
    /\ request = 0
    /\ offsets = <<>>
    /\ last_press_time = [l \in {} |-> 0]
    /\ processing_lock = NoThread
    /\ is_processing = FALSE
    /\ requested = 0
    /\ released = [h \in Requests |-> 0]
    /\ cpc = "idle"
    /\ ppc = [t \in PollThreads |-> "unstarted"]
    /\ fd = [t \in PollThreads |-> 0]
    /\ events = [t \in PollThreads |-> <<>>]
    /\ wpc = [w \in Workers |-> "idle"]
    /\ wlabel = [w \in Workers |-> None]
    /\ wlocal = [w \in Workers |-> NoLocals]
    /\ wcalls = [w \in Workers |-> <<>>]
    /\ now = StartTime
    /\ refresh_info = NoRefreshInfo
    /\ persisted = NoRefreshInfo
    /\ spawned = 0
    /\ gate_free = 0
    /\ spawn_failed = 0
    /\ calls = <<>>

\* one collaborator or log call, as it is recorded in `calls`
Call(name, args) == [call |-> name, args |-> args]

\* a liveness test that trusts the running flag instead of the thread
AliveWhileRunning(t) == t # 0 /\ running

\* threading.Thread.is_alive() of a poll-loop thread
IsAlive(t) == t # 0 /\ ppc[t] \notin {"unstarted", "done"}

\* ------------------------------------------------------------- start()
\* a start() that warns of the live poll loop and clears the running flag
StartAlreadyRunningStops ==
    /\ cpc = "idle"
    /\ thread # 0 /\ IsAlive(thread)
    /\ running' = FALSE
    /\ calls' = <<Call("logger.warning", <<"ButtonHandler already running">>)>>
    /\ UNCHANGED <<thread, chip, request, offsets, requested, released, gate,
                   last_press_time, cpc, pollvars, workvars, now, store,
                   counters>>

\* lines 52-54: a poll loop is alive: warn and return
StartAlreadyRunning ==
    /\ cpc = "idle"
    /\ thread # 0 /\ IsAlive(thread)
    /\ calls' = <<Call("logger.warning", <<"ButtonHandler already running">>)>>
    /\ UNCHANGED <<lifecycle, gate, last_press_time, cpc, pollvars, workvars,
                   now, store, counters>>

\* the steps of the hardware acquisition of start(), lines 64-71
AcquisitionSteps == {"find_chip", "line_offset_from_id", "request_lines"}
\* the launch of the poll-loop thread, lines 77-78: threading.Thread(...)
\* and its start()
LaunchSteps == {"Thread", "Thread.start"}
\* every call of the try block of start() that can raise
StartSteps == AcquisitionSteps \cup LaunchSteps

\* self.offsets after line 65
ButtonOffsets == [i \in 1..Len(BUTTONS) |-> LineOffsetFromId(BUTTONS[i])]

\* lines 56-84 when a call of the try block raises: find_chip_by_platform,
\* line_offset_from_id, request_lines, threading.Thread(...) or the start()
\* of the thread.  The fields assigned before the failure keep their new
\* value (from line 68 on the new line request is held, after line 77
\* self.thread is the thread that was not started), and the except clause
\* logs the error and clears self.running
StartFails(step) ==
    /\ cpc = "idle"
    /\ ~(thread # 0 /\ IsAlive(thread))
    /\ step \in LaunchSteps => requested < MaxStarts
    /\ chip' = IF step = "find_chip" THEN chip ELSE "chip"
    /\ offsets' = IF step \in {"find_chip", "line_offset_from_id"}
                  THEN offsets ELSE ButtonOffsets
    /\ request' = IF step \in LaunchSteps THEN requested + 1 ELSE request
    /\ requested' = IF step \in LaunchSteps THEN requested + 1 ELSE requested
    /\ thread' = IF step = "Thread.start" THEN thread + 1 ELSE thread
    /\ running' = FALSE
    /\ calls' = <<Call("logger.error", <<"Error starting ButtonHandler", step>>)>>
    /\ UNCHANGED <<released, gate, last_press_time, cpc, pollvars, workvars,
                   now, store, counters>>

\* lines 56-80: the lines are requested and the poll loop is launched
StartOk ==
    /\ cpc = "idle"
    /\ ~(thread # 0 /\ IsAlive(thread))
    /\ requested < MaxStarts
    /\ chip' = "chip"
    /\ offsets' = ButtonOffsets
    /\ request' = requested + 1
    /\ requested' = requested + 1
    /\ running' = TRUE
    /\ thread' = thread + 1
    /\ ppc' = [ppc EXCEPT ![thread + 1] = "loop"]
    /\ calls' = <<>>
    /\ UNCHANGED <<released, gate, last_press_time, cpc, fd, events, workvars,
                   now, store, counters>>

\* -------------------------------------------------------------- stop()
\* line 88
StopClearRunning ==
    /\ cpc = "idle"
    /\ running' = FALSE
    /\ cpc' = "stop_release"
    /\ calls' = <<>>
    /\ UNCHANGED <<thread, chip, request, offsets, requested, released, gate,
                   last_press_time, pollvars, workvars, now, store,
                   counters>>

\* lines 90-91: self.request.release() on the request held, if any; the
\* field still refers to the released request when the call returns
StopRelease ==
    /\ cpc = "stop_release"
    /\ IF request # 0
       THEN /\ released' = [released EXCEPT ![request] = @ + 1]
            /\ cpc' = "stop_clear"
       ELSE /\ UNCHANGED released
            /\ cpc' = "stop_join"
    /\ calls' = <<>>
    /\ UNCHANGED <<running, thread, chip, request, offsets, requested, gate,
                   last_press_time, pollvars, workvars, now, store, counters>>

\* line 91 when release() raises: stop() has no exception handler, so the
\* exception goes to the caller of stop(); the reference to the request is
\* kept and the join is skipped
StopReleaseFails ==
    /\ cpc = "stop_release"
    /\ request # 0
    /\ cpc' = "idle"
    /\ calls' = <<Call("raise", <<"stop", "release">>)>>
    /\ UNCHANGED <<lifecycle, gate, last_press_time, pollvars, workvars, now,
                   store, counters>>

\* line 92: self.request = None
StopClearRequest ==
    /\ cpc = "stop_clear"
    /\ request' = 0
    /\ cpc' = "stop_join"
    /\ calls' = <<>>
    /\ UNCHANGED <<running, thread, chip, offsets, requested, released, gate,
                   last_press_time, pollvars, workvars, now, store, counters>>

\* lines 94-97: join(timeout=2) returns when the thread has ended or the
\* two seconds are over, whichever comes first; on a thread that was never
\* started (its start() raised in start()) join raises RuntimeError, which
\* goes to the caller of stop()
StopJoin ==
    /\ cpc = "stop_join"
    /\ cpc' = "idle"
    /\ calls' = IF thread # 0 /\ ppc[thread] = "unstarted"
                THEN <<Call("raise", <<"stop", "join">>)>>
                ELSE <<>>
    /\ UNCHANGED <<lifecycle, gate, last_press_time, pollvars, workvars, now,
                   store, counters>>

\* ------------------------------------------------------------ helpers
\* list.index(x): the first position of x, 0 standing for ValueError
IndexOf(seq, x) ==
    IF \E i \in 1..Len(seq) : seq[i] = x
    THEN CHOOSE i \in 1..Len(seq) :
             seq[i] = x /\ \A j \in 1..(i - 1) : seq[j] # x
    ELSE 0

\* dict.get(key, default)
Get(d, k, default) == IF k \in DOMAIN d THEN d[k] ELSE default

\* d[key] = value
Put(d, k, v) == [x \in DOMAIN d \cup {k} |-> IF x = k THEN v ELSE d[x]]

\* every non-empty sequence over S of at most n elements
Batches(S, n) == UNION {[1..k -> S] : k \in 1..n}

\* --------------------------------------------- _handle_button_event
\* a debounce that keeps one timestamp for all buttons
LastTimeOfAnyButton(lpt, label) ==
    IF DOMAIN lpt = {} THEN 0
    ELSE CHOOSE m \in {lpt[l] : l \in DOMAIN lpt} :
             \A l \in DOMAIN lpt : lpt[l] <= m

\* line 146: self.last_press_time.get(label, 0)
LastTime(lpt, label) == Get(lpt, label, 0)

\* a gate that lets every debounced press through
GateAlwaysOpen(busy) == "go"

\* lines 158-162: a press that finds the flag set is ignored
GateDecision(busy) == IF busy THEN "busy" ELSE "go"

\* a handler that records the time of a press only once the press has
\* found the gate free
HandleEntryStampsAfterGate(line, offs, lpt, t, busy) ==
    LET index == IndexOf(offs, line) IN
    IF index = 0
    THEN [outcome |-> "error", label |-> None, last_press_time |-> lpt]
    ELSE LET label == LABELS[index]
             last_time == LastTime(lpt, label)
             time_since_last_press == t - last_time
         IN IF time_since_last_press < DEBOUNCE_TIME
            THEN [outcome |-> "bounce", label |-> label, last_press_time |-> lpt]
            ELSE [outcome |-> GateDecision(busy),
                  label |-> label,
                  last_press_time |-> IF busy THEN lpt ELSE Put(lpt, label, t)]

\* lines 139-160 for an event on `line`, given self.offsets, the debounce
\* map, the clock reading and the busy flag: what the handler decides and
\* the debounce map it leaves
HandleEntry(line, offs, lpt, t, busy) ==
    LET index == IndexOf(offs, line) IN
    IF index = 0
    THEN [outcome |-> "error", label |-> None, last_press_time |-> lpt]
    ELSE LET label == LABELS[index]
             last_time == LastTime(lpt, label)
             time_since_last_press == t - last_time
         IN IF time_since_last_press < DEBOUNCE_TIME
            THEN [outcome |-> "bounce", label |-> label, last_press_time |-> lpt]
            ELSE [outcome |-> GateDecision(busy),
                  label |-> label,
                  last_press_time |-> Put(lpt, label, t)]

\* a handler whose return ends the for loop: the rest of the batch is
\* dropped
HandlerReturnDropsRest(t) ==
    /\ events' = [events EXCEPT ![t] = <<>>]
    /\ ppc' = [ppc EXCEPT ![t] = "loop"]

\* the handler returns to the for loop of _run (lines 118-119): the next
\* event of the batch, or the next iteration of the while loop
HandlerReturn(t) ==
    /\ events' = [events EXCEPT ![t] = Tail(@)]
    /\ ppc' = [ppc EXCEPT ![t] = IF Tail(events[t]) = <<>> THEN "loop" ELSE "h_entry"]

\* lines 139-160: resolve the line, debounce, record the press, read the flag
HEntry(t) ==
    /\ ppc[t] = "h_entry"
    /\ LET r == HandleEntry(Head(events[t]), offsets, last_press_time, now,
                            is_processing)
       IN /\ last_press_time' = r.last_press_time
          /\ CASE r.outcome = "error" ->
                    /\ ppc' = [ppc EXCEPT ![t] = "h_exc_lock"]
                    /\ UNCHANGED <<events, gate_free>>
               [] r.outcome = "go" ->
                    /\ ppc' = [ppc EXCEPT ![t] = "h_lock"]
                    /\ gate_free' = gate_free + 1
                    /\ UNCHANGED events
               [] OTHER ->
                    /\ HandlerReturn(t)
                    /\ UNCHANGED gate_free
    /\ calls' = <<>>
    /\ UNCHANGED <<lifecycle, gate, cpc, fd, workvars, now, store, spawned,
                   spawn_failed>>

\* line 165: with self.processing_lock
HLock(t) ==
    /\ ppc[t] = "h_lock"
    /\ processing_lock = NoThread
    /\ processing_lock' = PollId(t)
    /\ ppc' = [ppc EXCEPT ![t] = "h_set"]
    /\ calls' = <<>>
    /\ UNCHANGED <<lifecycle, is_processing, last_press_time, cpc, fd, events,
                   workvars, now, store, counters>>

\* line 166, and the release of the lock at the end of the with block
HSet(t) ==
    /\ ppc[t] = "h_set"
    /\ is_processing' = TRUE
    /\ processing_lock' = NoThread
    /\ ppc' = [ppc EXCEPT ![t] = "h_spawn"]
    /\ calls' = <<>>
    /\ UNCHANGED <<lifecycle, last_press_time, cpc, fd, events, workvars, now,
                   store, counters>>

\* lines 171-177: the worker thread is created and started
HSpawn(t) ==
    /\ ppc[t] = "h_spawn"
    /\ \E w \in Workers :
          /\ wpc[w] = "idle"
          /\ \A v \in Workers : wpc[v] = "idle" => w <= v
          /\ wpc' = [wpc EXCEPT ![w] = "body"]
          /\ wlabel' = [wlabel EXCEPT ![w] =
                            LABELS[IndexOf(offsets, Head(events[t]))]]
    /\ spawned' = spawned + 1
    /\ HandlerReturn(t)
    /\ calls' = <<>>
    /\ UNCHANGED <<lifecycle, gate, last_press_time, cpc, fd, wlocal, wcalls,
                   now, store, gate_free, spawn_failed>>

\* lines 171-177 when threading.Thread(...) or start() raises
HSpawnFails(t) ==
    /\ ppc[t] = "h_spawn"
    /\ ppc' = [ppc EXCEPT ![t] = "h_exc_lock"]
    /\ spawn_failed' = spawn_failed + 1
    /\ calls' = <<>>
    /\ UNCHANGED <<lifecycle, gate, last_press_time, cpc, fd, events, workvars,
                   now, store, spawned, gate_free>>

\* line 182: the except clause takes the lock
HExceptLock(t) ==
    /\ ppc[t] = "h_exc_lock"
    /\ processing_lock = NoThread
    /\ processing_lock' = PollId(t)
    /\ ppc' = [ppc EXCEPT ![t] = "h_exc_set"]
    /\ calls' = <<>>
    /\ UNCHANGED <<lifecycle, is_processing, last_press_time, cpc, fd, events,
                   workvars, now, store, counters>>

\* an except clause that logs and leaves the busy flag as it is
HExceptKeepsFlag(t) ==
    /\ ppc[t] = "h_exc_set"
    /\ processing_lock' = NoThread
    /\ HandlerReturn(t)
    /\ calls' = <<>>
    /\ UNCHANGED <<lifecycle, is_processing, last_press_time, cpc, fd,
                   workvars, now, store, counters>>

\* line 183, and the release of the lock
HExceptSet(t) ==
    /\ ppc[t] = "h_exc_set"
    /\ is_processing' = FALSE
    /\ processing_lock' = NoThread
    /\ HandlerReturn(t)
    /\ calls' = <<>>
    /\ UNCHANGED <<lifecycle, last_press_time, cpc, fd, workvars, now,
                   store, counters>>

\* --------------------------------------------------------------- _run
\* the except clause of lines 123-128: back off while running, else break
AfterLoopError == IF running THEN "backoff" ELSE "done"

\* a loop that goes on whatever the running flag says
PollLoopForever(t) ==
    /\ ppc[t] = "loop"
    /\ ppc' = [ppc EXCEPT ![t] = "fd"]
    /\ calls' = <<>>
    /\ UNCHANGED <<lifecycle, gate, last_press_time, cpc, fd, events, workvars,
                   now, store, counters>>

\* line 106: while self.running
PollLoop(t) ==
    /\ ppc[t] = "loop"
    /\ ppc' = [ppc EXCEPT ![t] = IF running THEN "fd" ELSE "done"]
    /\ calls' = <<>>
    /\ UNCHANGED <<lifecycle, gate, last_press_time, cpc, fd, events, workvars,
                   now, store, counters>>

\* line 109: fd = self.request.fd, which raises when the request is None
PollFd(t) ==
    /\ ppc[t] = "fd"
    /\ IF request = 0
       THEN /\ ppc' = [ppc EXCEPT ![t] = AfterLoopError]
            /\ UNCHANGED fd
       ELSE /\ ppc' = [ppc EXCEPT ![t] = "select"]
            /\ fd' = [fd EXCEPT ![t] = request]
    /\ calls' = <<>>
    /\ UNCHANGED <<lifecycle, gate, last_press_time, cpc, events, workvars,
                   now, store, counters>>

\* lines 112-114: select.select([fd], [], [], 0.1) times out, reports the
\* descriptor readable, or raises
PollSelect(t, outcome) ==
    /\ ppc[t] = "select"
    /\ ppc' = [ppc EXCEPT ![t] =
                  CASE outcome = "timeout" -> "loop"
                    [] outcome = "readable" -> "read"
                    [] OTHER -> AfterLoopError]
    /\ fd' = [fd EXCEPT ![t] = 0]
    /\ calls' = <<>>
    /\ UNCHANGED <<lifecycle, gate, last_press_time, cpc, events, workvars,
                   now, store, counters>>

\* lines 116-117: self.request.read_edge_events() returns a batch
PollRead(t, batch) ==
    /\ ppc[t] = "read"
    /\ request # 0
    /\ events' = [events EXCEPT ![t] = batch]
    /\ ppc' = [ppc EXCEPT ![t] = "h_entry"]
    /\ calls' = <<>>
    /\ UNCHANGED <<lifecycle, gate, last_press_time, cpc, fd, workvars, now,
                   store, counters>>

\* lines 116-121: the read raises (the request is None, or the line source
\* fails); the inner except clause logs and the while loop goes on
PollReadFails(t) ==
    /\ ppc[t] = "read"
    /\ ppc' = [ppc EXCEPT ![t] = "loop"]
    /\ calls' = <<>>
    /\ UNCHANGED <<lifecycle, gate, last_press_time, cpc, fd, events, workvars,
                   now, store, counters>>

\* line 126: time.sleep(0.5)
PollBackoff(t) ==
    /\ ppc[t] = "backoff"
    /\ ppc' = [ppc EXCEPT ![t] = "loop"]
    /\ calls' = <<>>
    /\ UNCHANGED <<lifecycle, gate, last_press_time, cpc, fd, events, workvars,
                   now, store, counters>>

\* the clock advances
Tick ==
    /\ now < MaxTime
    /\ now' = now + 1
    /\ calls' = <<>>
    /\ UNCHANGED <<lifecycle, gate, last_press_time, cpc, pollvars, workvars,
                   store, counters>>

\* ------------------------------------------------ _process_button_async
\* device_config.get_refresh_info(): the record the store holds when the
\* worker calls it, read from a copy taken when the handler was constructed
RefreshInfoAtInit == NoRefreshInfo

\* line 194: device_config.get_refresh_info() returns the record the store
\* holds when the worker calls it
GetRefreshInfo == refresh_info

\* a worker whose exception handler ends the thread
EndsOnException(raised) == IF raised THEN "idle" ELSE "finally"

\* lines 190-238: return, fall-through and exception all enter the finally
\* clause
AfterBody(raised) == "finally"

\* a body that writes the fingerprint before it delivers the image
StepAfterHashFirst(step) ==
    CASE step = "handle_button" -> "set_image_hash"
      [] step = "set_image_hash" -> "display_image"
      [] step = "display_image" -> "write_config"

\* lines 216-230: the order of the calls that follow an image result
StepAfter(step) ==
    CASE step = "handle_button" -> "display_image"
      [] step = "display_image" -> "set_image_hash"
      [] step = "set_image_hash" -> "write_config"

\* lines 236-237: the except clause logs the exception raised by the last
\* of the calls cs
Raised(cs) == cs \o <<Call("logger.exception", <<cs[Len(cs)].call>>)>>

\* the body of worker w ends having made the calls cs, by a return, by
\* falling through or by an exception: its calls become the calls of the step
WorkerLeaves(w, cs, raised) ==
    /\ wpc' = [wpc EXCEPT ![w] = AfterBody(raised)]
    /\ wcalls' = [wcalls EXCEPT ![w] = <<>>]
    /\ wlocal' = [wlocal EXCEPT ![w] = NoLocals]
    /\ calls' = IF raised THEN Raised(cs) ELSE cs

\* the body of worker w goes on to `step` having made the calls cs, with
\* the locals loc
WorkerGoes(w, step, cs, loc) ==
    /\ wpc' = [wpc EXCEPT ![w] = step]
    /\ wcalls' = [wcalls EXCEPT ![w] = cs]
    /\ wlocal' = [wlocal EXCEPT ![w] = loc]
    /\ calls' = <<>>

\* lines 190-199: the worker reads the refresh info of the store and the
\* plugin id in it; without one it returns
WorkerGetRefreshInfo(w) ==
    /\ wpc[w] = "body"
    /\ LET cs == <<Call("get_refresh_info", <<>>)>>
           ri == GetRefreshInfo
           plugin_id == IF ~ri.present THEN None ELSE ri.plugin_id
       IN \/ WorkerLeaves(w, cs, TRUE)
          \/ IF plugin_id = None
             THEN WorkerLeaves(w, cs, FALSE)
             ELSE WorkerGoes(w, "get_plugin", cs,
                             [NoLocals EXCEPT !.plugin_id = plugin_id])
    /\ UNCHANGED <<lifecycle, gate, last_press_time, cpc, pollvars, wlabel,
                   now, store, counters>>

\* lines 202-205: device_config.get_plugin(plugin_id)
WorkerGetPlugin(w) ==
    /\ wpc[w] = "get_plugin"
    /\ LET plugin_id == wlocal[w].plugin_id
           cs == wcalls[w] \o <<Call("get_plugin", <<plugin_id>>)>>
       IN \/ WorkerLeaves(w, cs, TRUE)
          \/ IF ~HasConfig(plugin_id)
             THEN WorkerLeaves(w, cs, FALSE)
             ELSE \E cfg \in PluginConfigs :
                      WorkerGoes(w, "get_plugin_instance", cs,
                                 [wlocal[w] EXCEPT !.plugin_config = cfg])
    /\ UNCHANGED <<lifecycle, gate, last_press_time, cpc, pollvars, wlabel,
                   now, store, counters>>

\* lines 207-212: get_plugin_instance(plugin_config), and the test for
\* handle_button
WorkerGetPluginInstance(w) ==
    /\ wpc[w] = "get_plugin_instance"
    /\ LET plugin_id == wlocal[w].plugin_id
           cs == wcalls[w] \o <<Call("get_plugin_instance",
                                     <<plugin_id, wlocal[w].plugin_config>>)>>
       IN \/ WorkerLeaves(w, cs, TRUE)
          \/ IF ~HasHandleButton(plugin_id)
             THEN WorkerLeaves(w, cs, FALSE)
             ELSE WorkerGoes(w, "handle_button", cs, wlocal[w])
    /\ UNCHANGED <<lifecycle, gate, last_press_time, cpc, pollvars, wlabel,
                   now, store, counters>>

\* plugin.handle_button(label, device_config) of ImageAlbum: the call, with
\* what the plugin consulted (the fallback only without cached settings,
\* generate_image only for button A with settings at hand), and its result
AlbumOutcome(label, cached, recovery, generated) ==
    LET result == ImageAlbumHandleButton(label, cached, recovery, generated)
        looked_up == IF cached \in NoSettings THEN recovery ELSE None
        settings == IF cached \notin NoSettings THEN cached
                    ELSE IF recovery \in {"raises", "not_found"} THEN None
                    ELSE recovery
        generation == IF label = "A" /\ settings \notin NoSettings
                      THEN generated ELSE None
    IN [calls |-> <<Call("ImageAlbum.handle_button",
                         <<label, cached, looked_up, generation, result>>),
                    Call("handle_button", <<label, result>>)>>,
        result |-> result,
        raised |-> result = "raises"]

\* line 216: what plugin.handle_button(label, device_config) can do: return
\* a result or raise; for ImageAlbum, what its handle_button does over every
\* cache, fallback and generate_image outcome
HandleButtonOutcomes(label, plugin_id) ==
    IF plugin_id = ImageAlbumId
    THEN {AlbumOutcome(label, cached, recovery, generated) :
             cached \in CachedSettings, recovery \in Recoveries,
             generated \in Generations}
    ELSE {[calls |-> <<Call("handle_button", <<label, result>>)>>,
           result |-> result, raised |-> FALSE] : result \in Results}
         \cup {[calls |-> <<Call("handle_button", <<label, None>>)>>,
                result |-> None, raised |-> TRUE]}

\* lines 215-219 and 233-234: the plugin's handle_button is called; the
\* body goes on only with an image
WorkerHandleButton(w) ==
    /\ wpc[w] = "handle_button"
    /\ \E o \in HandleButtonOutcomes(wlabel[w], wlocal[w].plugin_id) :
          LET cs == wcalls[w] \o o.calls
          IN IF o.raised THEN WorkerLeaves(w, cs, TRUE)
             ELSE IF ~IsImage(o.result) THEN WorkerLeaves(w, cs, FALSE)
             ELSE WorkerGoes(w, StepAfter("handle_button"), cs,
                             [wlocal[w] EXCEPT !.result = o.result])
    /\ UNCHANGED <<lifecycle, gate, last_press_time, cpc, pollvars, wlabel,
                   now, store, counters>>

\* lines 221-224: display_manager.display_image(result, image_settings=...)
WorkerDisplayImage(w) ==
    /\ wpc[w] = "display_image"
    /\ LET cs == wcalls[w] \o
                 <<Call("display_image",
                        <<wlocal[w].result, ImageSettings(wlocal[w].plugin_config)>>)>>
       IN \/ WorkerLeaves(w, cs, TRUE)
          \/ WorkerGoes(w, StepAfter("display_image"), cs, wlocal[w])
    /\ UNCHANGED <<lifecycle, gate, last_press_time, cpc, pollvars, wlabel,
                   now, store, counters>>

\* lines 227-229: the fingerprint of the image is computed and written into
\* the record the worker got at line 194: the record of the store, unless
\* the store has replaced it since
WorkerSetImageHash(w) ==
    /\ wpc[w] = "set_image_hash"
    /\ LET c1 == wcalls[w] \o <<Call("compute_image_hash", <<wlocal[w].result>>)>>
           image_hash == ComputeImageHash(wlocal[w].result)
           c2 == c1 \o <<Call("set_image_hash", <<image_hash>>)>>
       IN \/ /\ WorkerLeaves(w, c1, TRUE)
             /\ UNCHANGED refresh_info
          \/ /\ WorkerGoes(w, StepAfter("set_image_hash"), c2, wlocal[w])
             /\ refresh_info' = IF wlocal[w].stale THEN refresh_info
                                ELSE [refresh_info EXCEPT !.image_hash = image_hash]
    /\ UNCHANGED <<lifecycle, gate, last_press_time, cpc, pollvars, wlabel,
                   now, persisted, counters>>

\* lines 230-232: device_config.write_config() persists what the store
\* holds
WorkerWriteConfig(w) ==
    /\ wpc[w] = "write_config"
    /\ LET cs == wcalls[w] \o <<Call("write_config", <<>>)>>
       IN \/ /\ WorkerLeaves(w, cs, TRUE)
             /\ UNCHANGED persisted
          \/ /\ WorkerLeaves(w, cs, FALSE)
             /\ persisted' = refresh_info
    /\ UNCHANGED <<lifecycle, gate, last_press_time, cpc, pollvars, wlabel,
                   now, refresh_info, counters>>

\* lines 190-237: the body of the worker, up to the finally clause
WorkerBody(w) ==
    \/ WorkerGetRefreshInfo(w)
    \/ WorkerGetPlugin(w)
    \/ WorkerGetPluginInstance(w)
    \/ WorkerHandleButton(w)
    \/ WorkerDisplayImage(w)
    \/ WorkerSetImageHash(w)
    \/ WorkerWriteConfig(w)

\* line 240: the finally clause takes the lock
WorkerFinallyLock(w) ==
    /\ wpc[w] = "finally"
    /\ processing_lock = NoThread
    /\ processing_lock' = WorkerId(w)
    /\ wpc' = [wpc EXCEPT ![w] = "finally_set"]
    /\ calls' = <<>>
    /\ UNCHANGED <<lifecycle, is_processing, last_press_time, cpc, pollvars,
                   wlabel, wlocal, wcalls, now, store, counters>>

\* a finally clause that releases the lock and leaves the flag set
WorkerFinallyKeepsFlag(w) ==
    /\ wpc[w] = "finally_set"
    /\ processing_lock' = NoThread
    /\ wpc' = [wpc EXCEPT ![w] = "idle"]
    /\ wlabel' = [wlabel EXCEPT ![w] = None]
    /\ calls' = <<>>
    /\ UNCHANGED <<lifecycle, is_processing, last_press_time, cpc, pollvars,
                   wlocal, wcalls, now, store, counters>>

\* lines 241-242: the flag is cleared, the lock released, the thread ends
WorkerFinallySet(w) ==
    /\ wpc[w] = "finally_set"
    /\ is_processing' = FALSE
    /\ processing_lock' = NoThread
    /\ wpc' = [wpc EXCEPT ![w] = "idle"]
    /\ wlabel' = [wlabel EXCEPT ![w] = None]
    /\ calls' = <<>>
    /\ UNCHANGED <<lifecycle, last_press_time, cpc, pollvars, wlocal,
                   wcalls, now, store, counters>>

\* a dispatch worker is active: its thread has started and not ended
WorkerActive(w) == wpc[w] # "idle"
ActiveWorkers == {w \in Workers : WorkerActive(w)}

\* ----------------------------------------------- simulate_button_press
\* lines 251-255: an unknown label is logged as an error, a known one is
\* logged as simulated; nothing else is done
SimulateButtonPress(button_label) ==
    /\ cpc = "idle"
    /\ calls' = IF IndexOf(LABELS, button_label) = 0
                THEN <<Call("logger.error", <<"Invalid button label", button_label>>)>>
                ELSE <<Call("logger.info", <<"Simulating button press", button_label>>)>>
    /\ UNCHANGED <<lifecycle, gate, last_press_time, cpc, pollvars, workvars,
                   now, store, counters>>

\* ------------------------------------------------- configuration store
\* worker w holds the record it got from get_refresh_info() and has not
\* yet written the fingerprint into it
HoldsRecord(w) ==
    wpc[w] \in {"get_plugin", "get_plugin_instance", "handle_button",
                "display_image", "set_image_hash"}

\* the refresh task of the application installs a new refresh-info record
\* (another plugin becomes the active one) and persists it: it changes the
\* record of the store in place, or puts a new record in its place, which
\* leaves the workers that hold the old one with a record of their own
Refresh(ri, in_place) ==
    /\ refresh_info # ri
    /\ in_place => (refresh_info.present /\ ri.present)
    /\ refresh_info' = ri
    /\ persisted' = ri
    /\ wlocal' = [w \in Workers |->
                     IF ~in_place /\ HoldsRecord(w)
                     THEN [wlocal[w] EXCEPT !.stale = TRUE]
                     ELSE wlocal[w]]
    /\ calls' = <<>>
    /\ UNCHANGED <<lifecycle, gate, last_press_time, cpc, pollvars, wpc,
                   wlabel, wcalls, now, counters>>

\* the worker when the store holds no refresh info: its body ends at line
\* 199 or in the except clause
WorkerWithoutPlugin(w) ==
    \/ WorkerGetRefreshInfo(w)
    \/ WorkerFinallyLock(w)
    \/ WorkerFinallySet(w)

Worker(w) ==
    \/ WorkerBody(w)
    \/ WorkerFinallyLock(w)
    \/ WorkerFinallySet(w)

\* start() when the calls of `steps` can raise
StartWith(steps) ==
    \/ StartAlreadyRunning
    \/ \E step \in steps : StartFails(step)
    \/ StartOk

Start == StartWith(StartSteps)

Stop ==
    \/ StopClearRunning
    \/ StopRelease
    \/ StopClearRequest
    \/ StopJoin

\* the poll loop when read_edge_events reports events of `lines` only
Poll(t, lines) ==
    \/ PollLoop(t)
    \/ PollFd(t)
    \/ \E outcome \in {"timeout", "readable", "raise"} : PollSelect(t, outcome)
    \/ \E batch \in Batches(lines, MaxBatch) : PollRead(t, batch)
    \/ PollReadFails(t)
    \/ PollBackoff(t)

Handler(t) ==
    \/ HEntry(t)
    \/ HLock(t)
    \/ HSet(t)
    \/ HSpawn(t)
    \/ HSpawnFails(t)
    \/ HExceptLock(t)
    \/ HExceptSet(t)

\* the button pipeline on the clock: the controller is started and never
\* stopped, the line source reports the requested lines only, the
\* configuration store holds no refresh info
Next ==
    \/ Start
    \/ \E t \in PollThreads : Poll(t, PressedLines) \/ Handler(t)
    \/ \E w \in Workers : WorkerWithoutPlugin(w)
    \/ Tick

Spec == Init /\ [][Next]_vars

\* the pipeline at one reading of the clock, with a line source that
\* reports the requested lines only and a configuration store whose active
\* plugin changes while the workers run
NextStore ==
    \/ Start
    \/ \E t \in PollThreads : Poll(t, PressedLines) \/ Handler(t)
    \/ \E w \in Workers : Worker(w)
    \/ \E ri \in RefreshInfos, in_place \in BOOLEAN : Refresh(ri, in_place)

SpecStore == Init /\ [][NextStore]_vars

\* the controller started and stopped by its caller, at one reading of the
\* clock, with a line source that also reports a line that was not
\* requested and a configuration store that holds no refresh info
NextLife ==
    \/ Start
    \/ Stop
    \/ \E t \in PollThreads : Poll(t, EventLines) \/ Handler(t)
    \/ \E w \in Workers : WorkerWithoutPlugin(w)

SpecLife == Init /\ [][NextLife]_vars

\* every operation together
NextAll ==
    \/ NextLife
    \/ StopReleaseFails
    \/ \E l \in {"A", "B", "E"} : SimulateButtonPress(l)
    \/ \E w \in Workers : Worker(w)
    \/ \E ri \in RefreshInfos, in_place \in BOOLEAN : Refresh(ri, in_place)
    \/ Tick

SpecAll == Init /\ [][NextAll]_vars

\* the interpreter schedules every thread that can run: a poll-loop thread
\* that can take a step takes one, and so does a dispatch worker; the caller
\* is free to call start() and stop() or not
Scheduling ==
    /\ \A t \in PollThreads : WF_vars(Poll(t, PressedLines) \/ Handler(t))
    /\ \A w \in Workers : WF_vars(Worker(w))

\* the controller started and stopped by its caller, its threads scheduled,
\* the line source reporting the requested lines only
NextStop ==
    \/ Start
    \/ Stop
    \/ \E t \in PollThreads : Poll(t, PressedLines) \/ Handler(t)
    \/ \E w \in Workers : WorkerWithoutPlugin(w)

SpecStop == Init /\ [][NextStop]_vars /\ Scheduling

\* the refresh info that makes ImageAlbum the active plugin
AlbumRefreshInfo ==
    [present |-> TRUE, plugin_id |-> ImageAlbumId, image_hash |-> OldHash]

\* the lines of button A, of a button next to it and of the last button
ButtonLines == {LineOffsetFromId(BUTTONS[i]) : i \in {1, 2, Len(BUTTONS)}}

\* the pipeline with ImageAlbum as the active plugin, at one reading of the
\* clock, the line source reporting presses of buttons A, B and D
NextAlbum ==
    \/ Start
    \/ \E t \in PollThreads : Poll(t, ButtonLines) \/ Handler(t)
    \/ \E w \in Workers : Worker(w)
    \/ Refresh(AlbumRefreshInfo, FALSE)

SpecAlbum == Init /\ [][NextAlbum]_vars

\* the controller started, stopped and simulated by its caller, with a
\* line source whose release() can fail
NextFail ==
    \/ NextStop
    \/ StopReleaseFails
    \/ \E l \in {"A", "B", "E"} : SimulateButtonPress(l)

SpecFail == Init /\ [][NextFail]_vars

\* ------------------------------------------------------------ properties
\* poll thread t is at the first step of the handler for the event at the
\* head of its batch, and this step is taken
HandlesEvent(t) ==
    /\ ppc[t] = "h_entry"
    /\ ppc'[t] # ppc[t] \/ events'[t] # events[t]

\* poll thread t is inside the handler, at any of its steps
InHandler(t) ==
    ppc[t] \in {"h_entry", "h_lock", "h_set", "h_spawn", "h_exc_lock", "h_exc_set"}

\* the label of the button whose line the event at the head of t's batch names
EventLabel(t) == LABELS[IndexOf(offsets, Head(events[t]))]

\* the event at the head of t's batch names none of the requested lines
UnknownEvent(t) == \A i \in 1..Len(offsets) : offsets[i] # Head(events[t])

\* the handler is over for the event at the head of t's batch
Returns(t) ==
    /\ events'[t] = Tail(events[t])
    /\ ppc'[t] \in {"loop", "h_entry"}

\* the steps of the body of a worker, lines 190-237
BodySteps ==
    {"body", "get_plugin", "get_plugin_instance", "handle_button",
     "display_image", "set_image_hash", "write_config"}

\* worker w takes a step
WorkerSteps(w) == wpc[w] # "idle" /\ wpc'[w] # wpc[w]

\* worker w takes the step that ends its body
LeavesBody(w) == wpc[w] \in BodySteps /\ wpc'[w] \notin BodySteps

\* C1: at most one dispatch worker is active at any instant, whatever edge
\* events (of requested lines or not) reach the handler
C1_AtMostOneWorker == Cardinality(ActiveWorkers) <= 1

\* C2: the busy flag is false until a press has passed the gate; a worker
\* writes the flag in one step only, the one by which it ends, and that step
\* leaves the flag false, whichever way its body ended
C2_FlagFalseAfterWorker ==
    [][/\ gate_free = 0 => ~is_processing
       /\ \A w \in Workers :
             WorkerSteps(w) =>
                 IF wpc'[w] = "idle"
                 THEN wpc[w] = "finally_set" /\ ~is_processing'
                 ELSE is_processing' = is_processing]_vars

\* C2 witness: two workers have run and ended, and the flag is false
C2_Witness ==
    /\ spawned >= 2
    /\ ActiveWorkers = {}
    /\ \A t \in PollThreads : ~InHandler(t)
    /\ ~is_processing

\* C3: while a dispatch worker is active the busy flag is true
C3_ActiveImpliesBusy == \A w \in Workers : WorkerActive(w) => is_processing

\* C4: debounce is per button.  A press less than DEBOUNCE_TIME after the
\* last accepted press of the same button is discarded: no timestamp is
\* written, the gate and the workers are left alone, the event is over.  A
\* press more than DEBOUNCE_TIME after it, or the first press of the button,
\* passes: it becomes the button's last accepted press.  The timestamps of
\* the other buttons play no part and are not written.
C4_DebouncePerButton ==
    [][\A t \in PollThreads :
          HandlesEvent(t) /\ ~UnknownEvent(t) =>
              LET label == EventLabel(t)
                  first == label \notin DOMAIN last_press_time
                  elapsed == IF first THEN DEBOUNCE_TIME
                             ELSE now - last_press_time[label]
              IN /\ (~first /\ elapsed < DEBOUNCE_TIME) =>
                        /\ UNCHANGED <<last_press_time, gate, wpc, counters>>
                        /\ Returns(t)
                 /\ (first \/ elapsed > DEBOUNCE_TIME) =>
                        /\ label \in DOMAIN last_press_time'
                        /\ last_press_time'[label] = now
                        /\ Returns(t) \/ ppc'[t] = "h_lock"
                 /\ \A other \in DOMAIN last_press_time \ {label} :
                        /\ other \in DOMAIN last_press_time'
                        /\ last_press_time'[other] = last_press_time[other]]_vars

\* C4 witness: button A was accepted twice and B once, B while A's window
\* was still open
C4_Witness ==
    /\ DOMAIN last_press_time = {"A", "B"}
    /\ last_press_time["A"] > StartTime + DEBOUNCE_TIME
    /\ last_press_time["B"] < StartTime + DEBOUNCE_TIME
    /\ gate_free = 3

\* no press is between finding the gate free and starting its worker
NoDispatchUnderWay ==
    \A t \in PollThreads : ppc[t] \notin {"h_lock", "h_set", "h_spawn"}

\* a press that passed the debounce filter and found the flag set is
\* dropped by the step that reads the flag: no worker is started, nothing
\* is kept of it
DroppedWhenBusy ==
    \A t \in PollThreads :
        (/\ HandlesEvent(t)
         /\ ~UnknownEvent(t)
         /\ \/ EventLabel(t) \notin DOMAIN last_press_time
            \/ now - last_press_time[EventLabel(t)] >= DEBOUNCE_TIME
         /\ is_processing) =>
            /\ Returns(t)
            /\ UNCHANGED <<gate, workvars, counters>>

\* a worker is started only by a poll thread at the end of the handler
SpawnOnlyByHandler ==
    (spawned' # spawned \/ \E w \in Workers : wpc[w] = "idle" /\ wpc'[w] # "idle") =>
        /\ spawned' = spawned + 1
        /\ \E t \in PollThreads : ppc[t] = "h_spawn" /\ Returns(t)

\* C5 as stated: the workers started are as many as the presses that passed
\* the debounce filter and found the gate free
C5_SpawnedEqualsGateFree == NoDispatchUnderWay => spawned = gate_free

\* C5 amended: a press that finds the flag set is dropped and never gets a
\* worker; the workers started are as many as the presses that found the
\* gate free, less those whose worker thread could not be started
C5_DroppedNotQueued ==
    /\ [](NoDispatchUnderWay => spawned + spawn_failed = gate_free)
    /\ [][DroppedWhenBusy /\ SpawnOnlyByHandler]_vars

\* C5 witness: a second press was accepted by the debounce filter while the
\* worker of the first was active, and no worker was started for it
C5_Witness ==
    /\ DOMAIN last_press_time = {"A", "B"}
    /\ spawned = 1 /\ gate_free = 1 /\ spawn_failed = 0
    /\ Cardinality(ActiveWorkers) = 1
    /\ \A t \in PollThreads : ~InHandler(t)

\* the step is simulate_button_press(label) for a known label
Simulates(label) ==
    /\ Len(calls') = 1
    /\ calls'[1].call = "logger.info"
    /\ calls'[1].args = <<"Simulating button press", label>>

\* C6: simulate_button_press(label) does to the debounce timestamps and to
\* the gate what the event handler does for an event of that button's line
C6_SimulateIsAPress ==
    [][\A i \in 1..Len(LABELS) :
          Simulates(LABELS[i]) =>
              LET r == HandleEntry(LineOffsetFromId(BUTTONS[i]), offsets,
                                   last_press_time, now, is_processing)
              IN /\ last_press_time' = r.last_press_time
                 /\ r.outcome = "go" => gate_free' = gate_free + 1]_vars

\* the handle_button call at position i returned an image
ReturnedImageAt(cs, i) ==
    /\ cs[i].call = "handle_button"
    /\ cs[i].args[2] \in Images

\* after a handle_button call at position i: one delivery of its image
\* with the image settings of the plugin configuration
DeliveredAt(cs, i) ==
    /\ Len(cs) >= i + 1
    /\ cs[3].call = "get_plugin_instance"
    /\ cs[i + 1].call = "display_image"
    /\ cs[i + 1].args[1] = cs[i].args[2]
    /\ cs[i + 1].args[2] =
           IF "image_settings" \in DOMAIN cs[3].args[2]
           THEN cs[3].args[2].image_settings
           ELSE <<>>

\* after the delivery: the fingerprint of that image is computed and
\* written to the refresh-info record
FingerprintWrittenAt(cs, i) ==
    /\ Len(cs) >= i + 3
    /\ cs[i + 2].call = "compute_image_hash"
    /\ cs[i + 2].args = <<cs[i].args[2]>>
    /\ cs[i + 3].call = "set_image_hash"
    /\ cs[i + 3].args = <<<<"hash", cs[i].args[2]>>>>

\* after a handle_button call at position i: one delivery, then the
\* fingerprint written, then one persist, and nothing more
DeliveredOnce(cs, i) ==
    /\ Len(cs) = i + 4
    /\ DeliveredAt(cs, i)
    /\ FingerprintWrittenAt(cs, i)
    /\ cs[i + 4].call = "write_config"

\* a call of the worker raised
SomeCallRaised(cs) == \E j \in 1..Len(cs) : cs[j].call = "logger.exception"

\* after a handle_button call at position i the sequence delivery,
\* fingerprint, persist was begun and cut short by the call that raised:
\* display_image (nothing written, no persist), compute_image_hash (one
\* delivery made, nothing written, no persist) or write_config (one
\* delivery, the fingerprint written once, the persist tried once); the
\* except clause logged it and no call follows
CutShortByRaise(cs, i) ==
    /\ DeliveredAt(cs, i)
    /\ \/ /\ Len(cs) = i + 2
          /\ cs[i + 2] = Call("logger.exception", <<"display_image">>)
       \/ /\ Len(cs) = i + 3
          /\ cs[i + 2].call = "compute_image_hash"
          /\ cs[i + 2].args = <<cs[i].args[2]>>
          /\ cs[i + 3] = Call("logger.exception", <<"compute_image_hash">>)
       \/ /\ Len(cs) = i + 5
          /\ FingerprintWrittenAt(cs, i)
          /\ cs[i + 4].call = "write_config"
          /\ cs[i + 5] = Call("logger.exception", <<"write_config">>)

\* C7 as stated: a worker whose plugin returns an image delivers it once,
\* writes its fingerprint once and persists once, in that order
C7_ImageDeliveredOnce ==
    \A i \in 1..Len(calls) :
        ReturnedImageAt(calls, i) => DeliveredOnce(calls, i)

\* C7 amended: a worker whose plugin returns an image calls display_image
\* once with that image and the plugin's image settings, then writes the
\* fingerprint once, then persists once, in that order and with no further
\* delivery, or stops at the first of these calls that raises: the
\* exception is logged, the calls that come after it in the order are not
\* made, and the body goes on to the finally clause
C7_DeliveredOnceOrCutShort ==
    /\ [](\A i \in 1..Len(calls) :
              ReturnedImageAt(calls, i) =>
                  \/ DeliveredOnce(calls, i)
                  \/ CutShortByRaise(calls, i))
    /\ [][\A w \in Workers :
              (LeavesBody(w) /\ \E i \in 1..Len(calls') : ReturnedImageAt(calls', i)) =>
                  wpc'[w] = "finally"]_vars

\* C7 witness: a worker has delivered an image with the settings of its
\* plugin and persisted its fingerprint
C7_Witness ==
    /\ \E w \in Workers : wpc[w] = "finally"
    /\ \E i \in 1..Len(calls) :
          /\ ReturnedImageAt(calls, i)
          /\ ~SomeCallRaised(calls)
          /\ Len(calls) = i + 4
          /\ calls[i + 1].args[2] # <<>>
          /\ persisted.image_hash = <<"hash", calls[i].args[2]>>
          /\ persisted = refresh_info

\* the body found no active plugin, no plugin configuration or no
\* handle_button (it raised nothing and never called handle_button), or
\* handle_button returned something that is no image
EndedWithoutImage(cs) ==
    \/ /\ ~SomeCallRaised(cs)
       /\ \A j \in 1..Len(cs) : cs[j].call # "handle_button"
    \/ \E i \in 1..Len(cs) :
          /\ cs[i].call = "handle_button"
          /\ cs[i].args[2] \notin Images
          /\ ~(i < Len(cs) /\ cs[i + 1].call = "logger.exception")

\* C8: a worker that finds no active plugin, no plugin configuration, no
\* handle_button, or gets a result that is no image calls no display_image,
\* and no step of it changes the refresh info or the persisted
\* configuration: its body ends at or before the handle_button call, and
\* the steps up to there leave both alone
C8_NoImageNoEffect ==
    [][\A w \in Workers :
          /\ (LeavesBody(w) /\ EndedWithoutImage(calls')) =>
                 /\ wpc[w] \in {"body", "get_plugin", "get_plugin_instance",
                                "handle_button"}
                 /\ \A j \in 1..Len(calls') :
                       calls'[j].call \notin {"display_image", "set_image_hash",
                                             "write_config"}
          /\ (WorkerSteps(w)
              /\ wpc[w] \in {"body", "get_plugin", "get_plugin_instance",
                             "handle_button"}) =>
                 UNCHANGED <<refresh_info, persisted>>]_vars

\* C8 witness: the body of a worker has ended on a handle_button result
\* that is neither an image nor None
C8_Witness ==
    /\ \E w \in Workers : wpc[w] = "finally"
    /\ Len(calls) >= 1
    /\ calls[Len(calls)].call = "handle_button"
    /\ calls[Len(calls)].args[2] = "other"

\* C9: the handler is a no-op for an event of a line that was not
\* requested: no step it takes for that event changes the debounce
\* timestamps, the busy flag or the workers
C9_UnknownLineNoOp ==
    [][\A t \in PollThreads :
          (InHandler(t) /\ UnknownEvent(t)
           /\ (ppc'[t] # ppc[t] \/ events'[t] # events[t])) =>
              UNCHANGED <<last_press_time, is_processing, workvars>>]_vars

\* stop() has been called and has returned, and start() not since
Stopped == cpc = "idle" /\ ~running /\ request = 0

\* C10 as stated: over any sequence of start() and stop() calls no line
\* request is released twice, and once stop() has returned every request
\* made so far has been released; a stop() in a controller that is stopped
\* or was never started changes nothing and releases nothing
C10_StopIdempotent ==
    /\ [](/\ \A h \in Requests : released[h] <= 1
          /\ Stopped => \A h \in 1..requested : released[h] = 1)
    /\ [][(cpc' # cpc /\ ~running /\ request = 0) =>
              UNCHANGED <<lifecycle, gate, last_press_time, pollvars,
                          workvars, store, counters>>]_vars

\* poll thread t gets a batch of edge events from read_edge_events()
ReadsEvents(t) == ppc[t] = "read" /\ ppc'[t] = "h_entry"

\* once the running flag is false every poll-loop thread that is alive ends
PollThreadEnds ==
    \A t \in PollThreads : (IsAlive(t) /\ ~running) ~> (ppc[t] = "done")

\* C11 as stated: after stop() is called the poll-loop thread ends, and no
\* batch of events is read once stop() has been called (so no worker is
\* started for an event read after it)
C11_NoReadAfterStop ==
    /\ PollThreadEnds
    /\ [][\A t \in PollThreads : ReadsEvents(t) => running]_vars

\* C11 amended: after stop() is called the poll-loop thread ends: it begins
\* no iteration once it has seen the flag false, and it reads no batch of
\* events once stop() has set the line request to None; a read made after
\* stop() cleared the flag and before it set the request to None can still
\* succeed and is handled
C11_PollThreadEndsAfterStop ==
    /\ PollThreadEnds
    /\ [][\A t \in PollThreads :
              /\ ReadsEvents(t) => request # 0
              /\ (ppc[t] = "loop" /\ ppc'[t] # ppc[t] /\ ~running) =>
                     ppc'[t] = "done"]_vars

\* C11 witness: stop() has returned, its join timed out, and the poll-loop
\* thread is about to read events from a request that was released and set
\* to None under it
C11_Witness ==
    /\ cpc = "idle" /\ ~running /\ request = 0
    /\ thread # 0 /\ ppc[thread] = "read"
    /\ requested = 1 /\ released[1] = 1

\* the last step was a start() that found the poll loop alive
AlreadyRunningLogged ==
    /\ Len(calls) = 1
    /\ calls[1].call = "logger.warning"
    /\ calls[1].args = <<"ButtonHandler already running">>

\* C12: a start() called while a poll-loop thread is alive warns and returns:
\* the running flag, the line request, the chip, the offsets, the poll
\* thread, the debounce timestamps and the gate are as they were, and no
\* poll loop is launched while one is alive
C12_StartWhileAliveNoOp ==
    [][/\ (Start /\ thread # 0 /\ IsAlive(thread)) =>
              /\ AlreadyRunningLogged'
              /\ UNCHANGED <<lifecycle, gate, last_press_time, cpc, pollvars,
                             workvars, now, store, counters>>
       /\ \A t \in PollThreads :
              (ppc[t] = "unstarted" /\ ppc'[t] # "unstarted") =>
                  \A u \in PollThreads : ~IsAlive(u)]_vars

\* C12 witness: start() was called and returned with a warning while the
\* poll loop was running, a press had been accepted and its worker was
\* active
C12_Witness ==
    /\ AlreadyRunningLogged
    /\ running /\ request # 0 /\ IsAlive(thread)
    /\ DOMAIN last_press_time # {}
    /\ is_processing /\ ActiveWorkers # {}

\* the last step let an exception out to the caller of the operation
Propagated(cs) == \E i \in 1..Len(cs) : cs[i].call = "raise"

\* the last step was a start() whose hardware acquisition failed at `step`
StartFailed(step) ==
    /\ Len(calls) = 1
    /\ calls[1].call = "logger.error"
    /\ calls[1].args = <<"Error starting ButtonHandler", step>>

\* C13 as stated: a start() whose acquisition fails, at any of its three steps, logs
\* the error and raises nothing, and leaves the controller stopped: the
\* running flag is false, no poll-loop thread was launched and none is
\* alive, and no line request is held
C13_StartFailureLeavesStopped ==
    [][\A step \in AcquisitionSteps :
          StartFails(step) =>
              /\ StartFailed(step)' /\ ~Propagated(calls')
              /\ ~running'
              /\ thread' = thread /\ ppc' = ppc
              /\ \A t \in PollThreads : ~IsAlive(t)'
              /\ request' = 0]_vars

\* C14: no step of start(), stop(), the poll loop, the event handler or a
\* dispatch worker lets an exception of a collaborator out to its caller
C14_NothingPropagates == ~Propagated(calls)

\* the poll loop of a thread ends only when the running flag is false
LoopEndsOnlyWhenStopped ==
    \A t \in PollThreads : (ppc[t] # "done" /\ ppc'[t] = "done") => ~running

\* a press of a known button outside its debounce window, handled when no
\* dispatch worker is active, finds the gate free
PassesGateWhenIdle ==
    \A t \in PollThreads :
        (/\ HandlesEvent(t)
         /\ ~UnknownEvent(t)
         /\ \/ EventLabel(t) \notin DOMAIN last_press_time
            \/ now - last_press_time[EventLabel(t)] >= DEBOUNCE_TIME
         /\ ActiveWorkers = {}) =>
            /\ ppc'[t] = "h_lock"
            /\ gate_free' = gate_free + 1

\* the handler never stays inside a press that found the gate free
HandlerReturns ==
    \A t \in PollThreads : (ppc[t] = "h_lock") ~> ~InHandler(t)

\* C15 as stated: no failure ends the poll loop while the running flag is
\* true, and a press outside its debounce window that arrives when no
\* worker is active, after whatever failed reads, handler calls and
\* workers, passes the gate and is given a new worker
C15_LaterPressDispatched ==
    /\ HandlerReturns
    /\ [][/\ LoopEndsOnlyWhenStopped
          /\ PassesGateWhenIdle
          /\ \A t \in PollThreads :
                 (ppc[t] = "h_spawn" /\ ppc'[t] # ppc[t]) =>
                     spawned' = spawned + 1]_vars

\* C15 amended: the same, except that the press is left without a worker
\* when the creation or the start of its own worker thread fails; the
\* handler then resets the flag, so that press blocks no later one either
C15_FailureBlocksNoLaterPress ==
    /\ HandlerReturns
    /\ [][/\ LoopEndsOnlyWhenStopped
          /\ PassesGateWhenIdle
          /\ \A t \in PollThreads :
                 (ppc[t] = "h_spawn" /\ ppc'[t] # ppc[t]) =>
                     \/ spawned' = spawned + 1
                     \/ spawn_failed' = spawn_failed + 1 /\ ppc'[t] = "h_exc_lock"
          /\ \A t \in PollThreads :
                 (ppc[t] = "h_exc_set" /\ ppc'[t] # ppc[t]) =>
                     ~is_processing']_vars

\* C15 witness: the worker thread of a press of A could not be started,
\* and the later press of B was given a worker, which is active
C15_Witness ==
    /\ spawn_failed = 1 /\ spawned = 1
    /\ DOMAIN last_press_time = {"A", "B"}
    /\ \E w \in Workers : WorkerActive(w) /\ wlabel[w] = "B"
    /\ running

\* the calls cs of a worker body resolve plugin p and no other: the refresh
\* info is read first, the configuration and the instance are asked for p,
\* and handle_button is called only when p has one
ResolvesPlugin(cs, p) ==
    /\ Len(cs) >= 1 /\ cs[1].call = "get_refresh_info"
    /\ \A i \in 1..Len(cs) :
          /\ cs[i].call = "get_refresh_info" => i = 1
          /\ cs[i].call = "get_plugin" => (i = 2 /\ cs[i].args = <<p>>)
          /\ cs[i].call = "get_plugin_instance" => (i = 3 /\ cs[i].args[1] = p)
          /\ cs[i].call = "handle_button" => (i = 4 /\ HasHandleButton(p))
    /\ (p # None /\ ~(Len(cs) = 2 /\ cs[2].call = "logger.exception")) =>
          (Len(cs) >= 2 /\ cs[2].call = "get_plugin")
    /\ (HasHandleButton(p) /\ ~SomeCallRaised(cs)) =>
          (Len(cs) >= 4 /\ cs[4].call = "handle_button")

\* the plugin id worker w works with: the one it read from the store at
\* line 195, or, at that line, the one the store holds
ResolvedId(w) ==
    IF wpc[w] = "body"
    THEN (IF refresh_info.present THEN refresh_info.plugin_id ELSE None)
    ELSE wlocal[w].plugin_id

\* C16: every dispatch worker resolves the plugin anew, from the refresh
\* info the configuration store holds when the worker reads it: it asks for
\* the configuration and the instance of that plugin and delegates to that
\* plugin, whatever plugin was active at earlier presses
C16_PluginResolvedPerWorker ==
    [][\A w \in Workers :
          /\ (wpc[w] = "body" /\ wpc'[w] = "get_plugin") =>
                 /\ refresh_info.present
                 /\ wlocal'[w].plugin_id = refresh_info.plugin_id
          /\ (wpc[w] = "body" /\ LeavesBody(w) /\ ~SomeCallRaised(calls')) =>
                 (~refresh_info.present \/ refresh_info.plugin_id = None)
          /\ LeavesBody(w) => ResolvesPlugin(calls', ResolvedId(w))]_vars

\* C16 witness: the worker of the second accepted press (button B) has
\* asked the store and delegated to the plugin that is active now, one
\* that became active after the handler was constructed
C16_Witness ==
    /\ spawned = 2
    /\ \E w \in Workers : wpc[w] = "finally" /\ wlabel[w] = "B"
    /\ refresh_info.present /\ refresh_info.plugin_id = "capable"
    /\ Len(calls) >= 4
    /\ calls[2].call = "get_plugin" /\ calls[2].args = <<"capable">>
    /\ calls[4].call = "handle_button" /\ calls[4].args[1] = "B"

\* once started, a dispatch worker runs to its end, whatever the caller does
WorkerCompletes ==
    \A w \in Workers : WorkerActive(w) ~> ~WorkerActive(w)

\* worker w takes its last step, the one that clears the flag
WorkerEnds(w) == wpc[w] = "finally_set" /\ wpc'[w] = "idle"

\* C17: no step of stop() touches a dispatch worker or the gate, and while
\* a worker dispatched earlier is active the busy flag goes from true to
\* false by the last step of a worker only, so the gate does not open
\* again before the worker has finished
C17_StopLeavesWorkerAndGate ==
    [][/\ Stop => UNCHANGED <<workvars, gate, counters>>
       /\ (ActiveWorkers # {} /\ is_processing /\ ~is_processing') =>
              \E w \in Workers : WorkerEnds(w)]_vars

\* poll thread t has read the busy flag (line 158) and found it false, and
\* has not yet written it (line 166)
BetweenCheckAndSet(t) == ppc[t] \in {"h_lock", "h_set"}

\* no worker writes the busy flag while a handler is between its read and
\* its write of the flag
NoWriteBetweenCheckAndSet ==
    [][\A t \in PollThreads :
          BetweenCheckAndSet(t) => \A w \in Workers : ~WorkerEnds(w)]_vars

\* C18: from its read of the busy flag to its write of true the handler
\* holds the gate lock, and no worker writes the flag in between
C18_CheckAndSetInOneSection ==
    [][\A t \in PollThreads :
          BetweenCheckAndSet(t) =>
              /\ processing_lock = PollId(t)
              /\ \A w \in Workers : ~WorkerEnds(w)]_vars

\* the event at the head of t's batch is a press of a known button that
\* the debounce filter lets through
PassesDebounce(t) ==
    /\ ~UnknownEvent(t)
    /\ \/ EventLabel(t) \notin DOMAIN last_press_time
       \/ now - last_press_time[EventLabel(t)] >= DEBOUNCE_TIME

\* C19: a press that passes the debounce filter becomes its button's last
\* accepted press whether the gate is free or busy; when the gate is busy
\* the press is dropped with its time recorded; the timestamps are written
\* by that step of the handler only, never by a step of a worker
C19_TimestampBeforeGate ==
    [][/\ \A t \in PollThreads :
              (HandlesEvent(t) /\ PassesDebounce(t)) =>
                  /\ last_press_time' = Put(last_press_time, EventLabel(t), now)
                  /\ is_processing =>
                         /\ Returns(t)
                         /\ UNCHANGED <<gate, workvars, counters>>
       /\ (last_press_time' # last_press_time) =>
              \E t \in PollThreads : HandlesEvent(t) /\ PassesDebounce(t)
       /\ (\E w \in Workers : WorkerSteps(w)) =>
              last_press_time' = last_press_time]_vars

\* C19 witness: while the worker of a press of A is active, a later press
\* of B was dropped at the gate and its time was recorded
C19_Witness ==
    /\ DOMAIN last_press_time = {"A", "B"}
    /\ last_press_time["B"] > last_press_time["A"]
    /\ last_press_time["B"] = now
    /\ gate_free = 1 /\ spawned = 1 /\ spawn_failed = 0
    /\ \E w \in Workers : WorkerActive(w) /\ wlabel[w] = "A"
    /\ \A t \in PollThreads : ~InHandler(t)

\* the poll-loop threads that have been started and have not ended
LivePollThreads == {t \in PollThreads : ppc[t] \notin {"unstarted", "done"}}

\* C20: whatever start() and stop() calls the caller makes, at most one
\* poll-loop thread is alive, and it is the one self.thread refers to
C20_AtMostOnePollThread ==
    /\ Cardinality(LivePollThreads) <= 1
    /\ \A t \in LivePollThreads : t = thread

\* C20 witness: stop() has released the request and returned while the
\* poll thread was still alive, and start() has been called again and has
\* found that thread alive
C20_Witness ==
    /\ AlreadyRunningLogged
    /\ cpc = "idle" /\ ~running /\ request = 0
    /\ thread = 1 /\ LivePollThreads = {1}
    /\ released[1] = 1

\* every batch that was read is handled to its end
BatchDrained ==
    \A t \in PollThreads : (events[t] # <<>>) ~> (events[t] = <<>>)

\* C21: the events of a batch are handled one after the other in the order
\* read_edge_events() returned them: a batch is read only when the last one
\* is drained, the handler works on the head of the batch, its return,
\* normal or through its except clause, removes the head alone and goes
\* on to the next event at once, and the loop waits again only when the
\* batch is empty; every batch is drained
C21_BatchDrainedInOrder ==
    /\ BatchDrained
    /\ [](\A t \in PollThreads :
              /\ InHandler(t) => events[t] # <<>>
              /\ ~InHandler(t) => events[t] = <<>>)
    /\ [][\A t \in PollThreads :
              /\ (events'[t] # events[t]) =>
                     \/ ReadsEvents(t) /\ events[t] = <<>>
                     \/ InHandler(t) /\ events'[t] = Tail(events[t])
              /\ (InHandler(t) /\ events'[t] = Tail(events[t])) =>
                     ppc'[t] = IF Tail(events[t]) = <<>> THEN "loop" ELSE "h_entry"
              /\ (ppc[t] = "h_exc_set" /\ ppc'[t] # ppc[t]) =>
                     events'[t] = Tail(events[t])]_vars

\* C21 witness: the worker thread of a press of A could not be started,
\* the handler has returned through its except clause, and the poll thread
\* is at the handler for an event of B's line
C21_Witness ==
    /\ spawn_failed = 1 /\ spawned = 0 /\ ~is_processing
    /\ DOMAIN last_press_time = {"A"}
    /\ \E t \in PollThreads :
          /\ ppc[t] = "h_entry"
          /\ events[t] = <<LineOffsetFromId(BUTTONS[2])>>

\* the read of poll thread t fails: the step leaves "read" without a batch
ReadFails(t) == ppc[t] = "read" /\ ppc'[t] \notin {"read", "h_entry"}

\* C22: every failure of the edge-event read while the running flag is
\* true is followed by the backoff of the loop, before the next wait
C22_BackoffAfterReadFailure ==
    [][\A t \in PollThreads :
          (ReadFails(t) /\ running) => ppc'[t] = "backoff"]_vars

\* poll thread t has set the flag and not yet started the worker, or is in
\* the except clause that resets the flag
SettingOrResetting(t) == ppc[t] \in {"h_spawn", "h_exc_lock", "h_exc_set"}

\* C23: whenever the busy flag is true, a dispatch worker is active, or a
\* poll thread has set the flag and is about to start the worker, or, the
\* start having failed, is in the except clause that resets the flag; that
\* clause leaves the flag false
C23_GateNeverStuck ==
    /\ [](is_processing =>
              \/ ActiveWorkers # {}
              \/ \E t \in PollThreads : SettingOrResetting(t))
    /\ [][\A t \in PollThreads :
              /\ (ppc[t] = "h_spawn" /\ ppc'[t] # ppc[t] /\ spawned' = spawned) =>
                     ppc'[t] = "h_exc_lock"
              /\ (ppc[t] = "h_exc_lock" /\ ppc'[t] # ppc[t]) =>
                     ppc'[t] = "h_exc_set"
              /\ (ppc[t] = "h_exc_set" /\ ppc'[t] # ppc[t]) =>
                     ~is_processing']_vars

\* C23 witness: the only press so far found the gate free and set the flag,
\* its worker thread could not be started, and the handler has reset the
\* flag and returned
C23_Witness ==
    /\ gate_free = 1 /\ spawn_failed = 1 /\ spawned = 0
    /\ ~is_processing /\ processing_lock = NoThread
    /\ \A t \in PollThreads : ~InHandler(t)
    /\ running

\* the calls cs of a worker body ended with the exception raised by `name`
RaisedIn(cs, name) ==
    /\ Len(cs) >= 2
    /\ cs[Len(cs)].call = "logger.exception"
    /\ cs[Len(cs)].args = <<name>>
    /\ cs[Len(cs) - 1].call = name

\* the calls cs hold a call of `name`
HasCall(cs, name) == \E i \in 1..Len(cs) : cs[i].call = name

\* C24: in a worker the fingerprint is written and the configuration is
\* persisted only after display_image has returned in that worker: when
\* display_image or compute_image_hash raises, the worker has written no
\* fingerprint and called no write_config, and the step leaves the refresh
\* info and the persisted record alone; a step of a worker changes the
\* refresh info only at line 229 and the persisted record only at line 230,
\* both after its own display_image call; the body then goes to the
\* finally clause, and the worker ends with the flag false
C24_PersistOnlyAfterDelivery ==
    [][\A w \in Workers :
          /\ LeavesBody(w) =>
                 /\ wpc'[w] = "finally"
                 /\ (RaisedIn(calls', "display_image")
                        \/ RaisedIn(calls', "compute_image_hash")) =>
                        /\ refresh_info' = refresh_info
                        /\ persisted' = persisted
                        /\ ~HasCall(calls', "set_image_hash")
                        /\ ~HasCall(calls', "write_config")
                 /\ \A i \in 1..Len(calls') :
                        calls'[i].call \in {"set_image_hash", "write_config"} =>
                            \E j \in 1..(i - 1) :
                                /\ calls'[j].call = "display_image"
                                /\ calls'[j + 1].call = "compute_image_hash"
          /\ (WorkerSteps(w) /\ refresh_info' # refresh_info) =>
                 /\ wpc[w] = "set_image_hash"
                 /\ HasCall(wcalls[w], "display_image")
          /\ (WorkerSteps(w) /\ persisted' # persisted) =>
                 /\ wpc[w] = "write_config"
                 /\ HasCall(wcalls[w], "display_image")
                 /\ HasCall(wcalls[w], "set_image_hash")
          /\ WorkerEnds(w) => ~is_processing']_vars

\* C24 witness: display_image has raised in a worker whose plugin returned
\* an image; the refresh info and the persisted record keep the old
\* fingerprint and the worker is at its finally clause
C24_Witness ==
    /\ \E w \in Workers : wpc[w] = "finally"
    /\ RaisedIn(calls, "display_image")
    /\ \E i \in 1..Len(calls) : ReturnedImageAt(calls, i)
    /\ refresh_info.present /\ refresh_info.image_hash = OldHash
    /\ persisted = refresh_info

\* the record of the ImageAlbum.handle_button call among the calls cs of a
\* worker body: <<button, cached settings, fallback outcome, generate_image
\* outcome, result>>
AlbumCall(cs) == cs[4].args

\* the calls cs are those of a worker body that reached
\* ImageAlbum.handle_button
CallsAlbum(cs) == Len(cs) >= 5 /\ cs[4].call = "ImageAlbum.handle_button"

\* handle_button had settings to work with: cached ones, or ones recovered
\* from the active playlist
SettingsAtHand(cached, looked_up) ==
    cached \notin NoSettings \/ looked_up = "playlist"

\* C25: ImageAlbum.handle_button never raises and returns an image only for
\* button A: for B, C and D it returns None, for A it returns what
\* generate_image returns, or None when generate_image raises, and without
\* cached settings and with none recovered from the active playlist it
\* returns None for every button; a worker that resolved ImageAlbum passes
\* that result on, so a press of B, C or D delivers nothing to the display
C25_AlbumImageOnlyForA ==
    /\ [](\A b \in {LABELS[i] : i \in 1..Len(LABELS)}, c \in CachedSettings,
             r \in Recoveries, g \in Generations :
             LET result == ImageAlbumHandleButton(b, c, r, g)
             IN /\ result # "raises"
                /\ b # "A" => result = None
                /\ (b = "A" /\ (c \notin NoSettings \/ r = "playlist")) =>
                       result = (IF g = "raises" THEN None ELSE g)
                /\ (c \in NoSettings /\ r # "playlist") => result = None)
    /\ [][\A w \in Workers :
              (LeavesBody(w) /\ CallsAlbum(calls')) =>
                  LET a == AlbumCall(calls')
                  IN /\ a[1] = wlabel[w]
                     /\ a[5] # "raises"
                     /\ ~RaisedIn(calls', "handle_button")
                     /\ calls'[5] = Call("handle_button", <<wlabel[w], a[5]>>)
                     /\ IsImage(a[5]) => (a[1] = "A" /\ a[5] = a[4])
                     /\ (a[1] = "A" /\ SettingsAtHand(a[2], a[3])) =>
                            a[5] = (IF a[4] = "raises" THEN None ELSE a[4])
                     /\ ~SettingsAtHand(a[2], a[3]) => a[5] = None
                     /\ a[1] # "A" =>
                            /\ a[5] = None
                            /\ wpc[w] = "handle_button"
                            /\ ~HasCall(calls', "display_image")
                            /\ refresh_info' = refresh_info
                            /\ persisted' = persisted]_vars

\* C25 witness: with ImageAlbum active and its settings cached, a worker
\* handled a press of D: handle_button returned None, nothing was delivered
\* to the display, and the worker is at its finally clause
C25_Witness ==
    /\ \E w \in Workers : wpc[w] = "finally" /\ wlabel[w] = "D"
    /\ CallsAlbum(calls)
    /\ AlbumCall(calls) = <<"D", "cached", None, None, None>>
    /\ calls[5] = Call("handle_button", <<"D", None>>)
    /\ ~HasCall(calls, "display_image")
    /\ refresh_info = AlbumRefreshInfo
====
